---------------------------- MODULE Spec2Model ----------------------------
(***************************************************************************)
(* The "explorations" generator of the site (scripts/explorations-         *)
(* generator.js): it selects the posts of the category 'Explorations',     *)
(* orders them (primary order_by pass, then the sticky pass) and hands     *)
(* them to the pagination routine, which cuts them into pages.             *)
(*                                                                         *)
(* JavaScript values that may be undefined, a number or a string are       *)
(* records [t, n, s]; a string is the sequence of its pieces, so that      *)
(* concatenation is \o and a prefix or a placeholder can be inspected.     *)
(***************************************************************************)
EXTENDS Integers, Sequences, FiniteSets, TLC

\* ------------------------------------------------------------------ bounds
MaxPosts == 3
MaxBulk == 12
MaxPerPage == 3
\* the most times one run of the site build generates the site
MaxCalls == 2

\* ------------------------------------------------------- JavaScript values
JsUndef == [t |-> "undefined", n |-> 0, s |-> <<>>]
JsNum(k) == [t |-> "number", n |-> k, s |-> <<>>]
JsStr(x) == [t |-> "string", n |-> 0, s |-> x]

\* ToBoolean: undefined, 0 and '' are falsy
Truthy(v) ==
    CASE v.t = "undefined" -> FALSE
      [] v.t = "number" -> v.n # 0
      [] OTHER -> v.s # <<>>

\* a || b
JsOr(a, b) == IF Truthy(a) THEN a ELSE b

\* ToNumber(v) is NaN: undefined and a non-numeric string
IsNaN(v) == v.t # "number"

Min(a, b) == IF a <= b THEN a ELSE b

\* Math.ceil(a / b) for integers a >= 0 and b # 0
CeilDiv(a, b) ==
    IF b > 0 THEN (a + b - 1) \div b
    ELSE -(a \div (-b))

\* the elements of a sequence
Range(seq) == {seq[i] : i \in DOMAIN seq}

\* Array.prototype.sort with a comparator (cmp[a, b] is its answer): the
\* sort is stable; x is placed behind the last element that does not compare
\* greater than it
Insert(sorted, x, cmp) ==
    LET le == {j \in 1..Len(sorted) : cmp[sorted[j], x] <= 0}
        p == IF le = {} THEN 0 ELSE CHOOSE j \in le : \A k \in le : k <= j
    IN SubSeq(sorted, 1, p) \o <<x>> \o SubSeq(sorted, p + 1, Len(sorted))

StableSort(seq, cmp) ==
    LET f[k \in 0..Len(seq)] ==
            IF k = 0 THEN <<>> ELSE Insert(f[k - 1], seq[k], cmp)
    IN f[Len(seq)]

\* --------------------------------------------------------------- the posts
Cat(name) == [name |-> name]

\* post.categories: absent, or a list of categories
NoCategories == [present |-> FALSE, data |-> <<>>]
Categories(list) == [present |-> TRUE, data |-> list]

TARGET == "Explorations"

\* faulty variant: the names are compared without regard to letter case
catMatches_ignoreCase(cat) == cat.name \in {"Explorations", "explorations"}

\* line 18: cat.name === 'Explorations'
catMatches(cat) == cat.name = TARGET

\* faulty variant: any post that has a category is kept
isExplorationsPost_anyCategory(post) ==
    post.categories.present /\ Len(post.categories.data) > 0

\* faulty variant: only the first category of the post is looked at
isExplorationsPost_firstOnly(post) ==
    /\ post.categories.present
    /\ Len(post.categories.data) > 0
    /\ catMatches(post.categories.data[1])

\* faulty variant: a hidden post is left out, as the normal listings do
isExplorationsPost_notHidden(post) ==
    /\ ~post.hidden
    /\ post.categories.present
    /\ \E i \in 1..Len(post.categories.data) :
          catMatches(post.categories.data[i])

\* lines 16-19: the filter callback
isExplorationsPost(post) ==
    IF ~post.categories.present \/ Len(post.categories.data) = 0
    THEN FALSE
    ELSE \E i \in 1..Len(post.categories.data) :
            catMatches(post.categories.data[i])

\* ------------------------------------------- warehouse: Query.sort(orderby)
DATE == <<"d", "a", "t", "e">>
STICKY == <<"s", "t", "i", "c", "k", "y">>

\* parseArgs: a leading '-' asks for the descending order, a leading '+'
\* (or nothing) for the ascending one
parseArgs(orderby) ==
    IF orderby # <<>> /\ Head(orderby) = "-"
        THEN [key |-> Tail(orderby), descending |-> TRUE]
    ELSE IF orderby # <<>> /\ Head(orderby) = "+"
        THEN [key |-> Tail(orderby), descending |-> FALSE]
    ELSE [key |-> orderby, descending |-> FALSE]

\* getProp: the value of a field of a post, undefined for a field it lacks
getProp(post, key) ==
    IF key = DATE THEN JsNum(post.date)
    ELSE IF key = STICKY THEN post.sticky
    ELSE JsUndef

\* SchemaType.compare: a > b gives 1, a < b gives -1, anything else 0
\* (a comparison with undefined is neither)
compare(a, b) ==
    IF a.t = "number" /\ b.t = "number"
    THEN (IF a.n > b.n THEN 1 ELSE IF a.n < b.n THEN -1 ELSE 0)
    ELSE 0

\* sortStack: the comparator of one sort key
sortCompare(sort, a, b) ==
    LET result == compare(getProp(a, sort.key), getProp(b, sort.key))
    IN IF sort.descending /\ result # 0 THEN -result ELSE result

\* Query.sort: a new Query over data.slice().sort(fn)
QuerySort(data, orderby) ==
    LET sort == parseArgs(orderby)
        fn == [a \in Range(data), b \in Range(data) |-> sortCompare(sort, a, b)]
    IN StableSort(data, fn)

\* ------------------------------------------------- hexo-pagination
\* util.format('%d') of a non-negative integer
Digit(d) == <<"0", "1", "2", "3", "4", "5", "6", "7", "8", "9">>[d + 1]

RECURSIVE DecStr(_)
DecStr(i) ==
    IF i < 10 THEN <<Digit(i)>> ELSE DecStr(i \div 10) \o <<Digit(i % 10)>>

\* util.format(fmt, i): the first %d is replaced by i
Format(fmt, i) ==
    LET at == {k \in 1..Len(fmt) : fmt[k] = "%d"}
    IN IF at = {} THEN fmt
       ELSE LET k == CHOOSE x \in at : \A y \in at : x <= y
            IN SubSeq(fmt, 1, k - 1) \o DecStr(i) \o SubSeq(fmt, k + 1, Len(fmt))

\* base gets a trailing '/' unless it is empty or has one
normBase(base) ==
    IF base # <<>> /\ base[Len(base)] # "/" THEN base \o <<"/">> ELSE base

\* i > 1 ? base + format(_format, i) : base
formatURL(base, fmt, i) == IF i > 1 THEN base \o Format(fmt, i) ELSE base

\* posts.slice(start, end) for 0 <= start
Slice(seq, start, end) == SubSeq(seq, start + 1, Min(end, Len(seq)))

\* perPage ? Math.ceil(length / perPage) : 1, and NaN for a perPage that is
\* no number ([nan |-> TRUE])
pageTotal(length, perPage) ==
    IF ~Truthy(perPage) THEN [nan |-> FALSE, n |-> 1]
    ELSE IF IsNaN(perPage) THEN [nan |-> TRUE, n |-> 0]
    ELSE [nan |-> FALSE, n |-> CeilDiv(length, perPage.n)]

makeData(base, fmt, perPage, total, posts, i) ==
    [base |-> base,
     total |-> total,
     current |-> i,
     current_url |-> formatURL(base, fmt, i),
     posts |-> IF Truthy(perPage)
               THEN Slice(posts, perPage.n * (i - 1), perPage.n * i)
               ELSE posts,
     prev |-> IF i > 1 THEN i - 1 ELSE 0,
     prev_link |-> IF i > 1 THEN formatURL(base, fmt, i - 1) ELSE <<>>,
     next |-> IF i < total THEN i + 1 ELSE 0,
     next_link |-> IF i < total THEN formatURL(base, fmt, i + 1) ELSE <<>>]

\* pagination(base, posts, options): the page descriptors
pagination(base0, posts, options) ==
    LET base == normBase(base0)
        perPage == options.perPage
        total == pageTotal(Len(posts), perPage)
        page(i) == [path |-> formatURL(base, options.format, i),
                    layout |-> options.layout,
                    \* Object.assign(makeData(i), data)
                    data |-> options.data @@ makeData(base, options.format,
                                                      perPage, total.n, posts, i)]
    IN IF Truthy(perPage)
       THEN \* for (i = 1; i <= total; i++): no turn when total is NaN or < 1
            IF total.nan \/ total.n < 1 THEN <<>>
            ELSE [i \in 1..total.n |-> page(i)]
       ELSE <<page(1)>>

\* ------------------------------------------------- the generator
\* line 11: !locals.all_posts
allPostsMissing(locals) == ~locals.all_posts.present

\* lines 16-19: locals.all_posts.filter(...), a new collection, order kept
selectPosts(all_posts) == SelectSeq(all_posts, isExplorationsPost)

\* faulty variant: the test of line 21 answers yes for every selection
noneSelected_always(explorationsPosts) == TRUE

\* faulty variant: the test of line 21 is gone
noneSelected_never(explorationsPosts) == FALSE

\* line 21: explorationsPosts.length === 0
noneSelected(explorationsPosts) == Len(explorationsPosts) = 0

\* faulty variant: the default ordering is ascending by date
orderByOf_ascending(config) ==
    JsOr(config.index_generator.order_by, JsStr(DATE))

\* line 26: config.index_generator.order_by || '-date'
orderByOf(config) ==
    JsOr(config.index_generator.order_by, JsStr(<<"-">> \o DATE))

\* faulty variant: the ordering is written into the call, orderBy is not used
primarySort_hardcoded(explorationsPosts, orderBy) ==
    QuerySort(explorationsPosts, <<"-">> \o DATE)

\* line 27: explorationsPosts.sort(orderBy)
primarySort(explorationsPosts, orderBy) ==
    QuerySort(explorationsPosts, orderBy.s)

\* faulty variant: (x.sticky ?? -1), a post without sticky counts below 0
stickyCompare_absentBelow(a, b) ==
    LET val(post) == IF post.sticky.t = "undefined" THEN -1 ELSE post.sticky.n
    IN val(b) - val(a)

\* faulty variant: a - b, the lower sticky first
stickyCompare_ascending(a, b) ==
    JsOr(a.sticky, JsNum(0)).n - JsOr(b.sticky, JsNum(0)).n

\* faulty variant: a comparator that never answers 0, ties swap
stickyCompare_noTie(a, b) ==
    IF JsOr(b.sticky, JsNum(0)).n >= JsOr(a.sticky, JsNum(0)).n THEN 1 ELSE -1

\* line 30: (b.sticky || 0) - (a.sticky || 0)
stickyCompare(a, b) == JsOr(b.sticky, JsNum(0)).n - JsOr(a.sticky, JsNum(0)).n

\* line 30: sortedPosts.data.sort(...), in place on the array of line 27
stickySort(primaryPosts) ==
    StableSort(primaryPosts,
               [a \in Range(primaryPosts), b \in Range(primaryPosts) |->
                   stickyCompare(a, b)])

\* faulty variant: another default segment
paginationDirOf_pages(config) == JsOr(config.pagination_dir, JsStr(<<"pages">>))

\* line 32: config.pagination_dir || 'page'
paginationDirOf(config) == JsOr(config.pagination_dir, JsStr(<<"page">>))

\* line 35: the page size used when none is configured
DefaultPerPage == 10

\* faulty variant: the page size is read from config.per_page, which is not set
perPageOf_topLevel(config) == JsOr(JsUndef, JsNum(DefaultPerPage))

\* faulty variant: && for ||
perPageOf_and(config) ==
    IF Truthy(config.index_generator.per_page)
    THEN JsNum(DefaultPerPage)
    ELSE config.index_generator.per_page

\* faulty variant: the configured page size is passed on without a default
perPageOf_noDefault(config) == config.index_generator.per_page

\* line 35: config.index_generator.per_page || 10
perPageOf(config) ==
    JsOr(config.index_generator.per_page, JsNum(DefaultPerPage))

\* faulty variant: the format has no place for the page number
formatOf_noNumber(paginationDir) == paginationDir.s \o <<"/">>

\* faulty variant: the '/' between the segment and the number is missing
formatOf_noSlash(paginationDir) == paginationDir.s \o <<"%d", "/">>

\* line 37: paginationDir + '/%d/'
formatOf(paginationDir) == paginationDir.s \o <<"/", "%d", "/">>

\* faulty variant: the collection of line 16 is paginated, not the sorted one
paginationArgs_unsorted(config, explorationsPosts, sortedPosts) ==
    [base |-> <<"explorations", "/">>,
     posts |-> explorationsPosts,
     options |-> [perPage |-> perPageOf(config),
                  layout |-> <<"explorations", "index">>,
                  format |-> formatOf(paginationDirOf(config)),
                  data |-> [__explorations |-> TRUE,
                            subtitle |-> <<"Curiosity-driven dives">>]]]

\* faulty variant: the generic layout is named before the one of the section
paginationArgs_indexFirst(config, explorationsPosts, sortedPosts) ==
    [base |-> <<"explorations", "/">>,
     posts |-> sortedPosts,
     options |-> [perPage |-> perPageOf(config),
                  layout |-> <<"index", "explorations">>,
                  format |-> formatOf(paginationDirOf(config)),
                  data |-> [__explorations |-> TRUE,
                            subtitle |-> <<"Curiosity-driven dives">>]]]

\* lines 34-42: the arguments of the pagination call
paginationArgs(config, explorationsPosts, sortedPosts) ==
    [base |-> <<"explorations", "/">>,
     posts |-> sortedPosts,
     options |-> [perPage |-> perPageOf(config),
                  layout |-> <<"explorations", "index">>,
                  format |-> formatOf(paginationDirOf(config)),
                  data |-> [__explorations |-> TRUE,
                            subtitle |-> <<"Curiosity-driven dives">>]]]

\* faulty variant: the array of locals.all_posts is sorted in place as well
stickySortInPlace_both(arrays) ==
    [arrays EXCEPT !.all_posts = stickySort(@), !.sortedPosts = stickySort(@)]

\* faulty variant: locals.all_posts.data.sort(...), the array of locals.all_posts
\* is sorted in place and the one of line 27 is not
stickySortInPlace_input(arrays) ==
    [arrays EXCEPT !.all_posts = stickySort(@)]

\* line 30: sortedPosts.data.sort(...) sorts the array made at line 27 in
\* place; filter (line 16) and Query sort (line 27) have made new arrays. The
\* arrays after the statement
stickySortInPlace(arrays) ==
    [arrays EXCEPT !.sortedPosts = stickySort(@)]

\* the outcome of a call; all_posts is the array of locals.all_posts after it
Returned(pages, sel, prim, sorted, input) ==
    [outcome |-> "returned", pages |-> pages, explorationsPosts |-> sel,
     primaryPosts |-> prim, sortedPosts |-> sorted, all_posts |-> input]

\* a TypeError leaves the generator before it returns
Threw(sel, prim, sorted, input) ==
    [outcome |-> "threw", pages |-> <<>>, explorationsPosts |-> sel,
     primaryPosts |-> prim, sortedPosts |-> sorted, all_posts |-> input]

\* lines 7-43: the generator registered as 'explorations'
explorations(locals, config) ==
    IF allPostsMissing(locals)
    THEN Returned(<<>>, <<>>, <<>>, <<>>, locals.all_posts.data)
    ELSE LET explorationsPosts == selectPosts(locals.all_posts.data)
         IN IF noneSelected(explorationsPosts)
            THEN Returned(<<>>, explorationsPosts, <<>>, <<>>,
                          locals.all_posts.data)
            ELSE IF ~config.index_generator.present
            \* line 26 reads a property of undefined
            THEN Threw(explorationsPosts, <<>>, <<>>, locals.all_posts.data)
            ELSE LET primaryPosts ==
                         primarySort(explorationsPosts, orderByOf(config))
                     arrays ==
                         stickySortInPlace(
                             [all_posts |-> locals.all_posts.data,
                              explorationsPosts |-> explorationsPosts,
                              sortedPosts |-> primaryPosts])
                     args == paginationArgs(config, arrays.explorationsPosts,
                                            arrays.sortedPosts)
                 IN Returned(pagination(args.base, args.posts, args.options),
                             arrays.explorationsPosts, primaryPosts,
                             arrays.sortedPosts, arrays.all_posts)

\* ------------------------------------------------- the inputs
Explorations == Categories(<<Cat(TARGET)>>)
Compilers == Categories(<<Cat("Compilers")>>)

CategoryLists ==
    {NoCategories, Categories(<<>>), Compilers, Explorations,
     Categories(<<Cat("explorations")>>),
     Categories(<<Cat("Compilers"), Cat(TARGET)>>),
     Categories(<<Cat(TARGET), Cat(TARGET)>>)}

StickyValues == {JsUndef, JsNum(-1), JsNum(0), JsNum(2), JsNum(5)}

\* posts that differ in their categories
SelectKinds ==
    [categories : CategoryLists, date : {1}, sticky : {JsUndef},
     hidden : {FALSE}]

\* posts of the category that differ in date, some of them pinned
DateKinds ==
    [categories : {Explorations}, date : {1, 2, 3},
     sticky : {JsUndef, JsNum(2)}, hidden : {FALSE}]

\* posts of the category that differ in sticky
StickyKinds ==
    [categories : {Explorations}, date : {1, 2}, sticky : StickyValues,
     hidden : {FALSE}]

\* three posts of the category: the newest and the oldest of sticky 0, the
\* middle one of sticky 1
PinnedMiddleKinds ==
    {[categories |-> Explorations, date |-> 3, sticky |-> JsNum(0),
      hidden |-> FALSE],
     [categories |-> Explorations, date |-> 2, sticky |-> JsNum(1),
      hidden |-> FALSE],
     [categories |-> Explorations, date |-> 1, sticky |-> JsNum(0),
      hidden |-> FALSE]}

\* posts in and out of the category, hidden or not
PageKinds ==
    [categories : {Explorations}, date : {1, 2},
     sticky : {JsUndef}, hidden : BOOLEAN]
    \cup [categories : {Compilers}, date : {1},
          sticky : {JsUndef}, hidden : BOOLEAN]

\* n posts of the category, of one sticky, from the most recent to the oldest
\* (or the other way round)
BulkPosts(n, recentFirst, sticky) ==
    [i \in 1..n |->
        [categories |-> Explorations,
         date |-> IF recentFirst THEN n + 1 - i ELSE i,
         sticky |-> sticky, hidden |-> FALSE]]

\* a collection: the posts carry their position as identity
Collection(kinds) ==
    [i \in DOMAIN kinds |->
        [id |-> i, categories |-> kinds[i].categories, date |-> kinds[i].date,
         sticky |-> kinds[i].sticky, hidden |-> kinds[i].hidden]]

Locals(data) == [all_posts |-> [present |-> TRUE, data |-> data]]
NoAllPosts == [all_posts |-> [present |-> FALSE, data |-> <<>>]]

Config(order_by, per_page, pagination_dir) ==
    [index_generator |->
        [present |-> TRUE, order_by |-> order_by, per_page |-> per_page],
     pagination_dir |-> pagination_dir]

\* a site configuration without the index_generator group
NoIndexGenerator(pagination_dir) ==
    [index_generator |->
        [present |-> FALSE, order_by |-> JsUndef, per_page |-> JsUndef],
     pagination_dir |-> pagination_dir]

OrderBys ==
    {JsUndef, JsStr(<<"-">> \o DATE), JsStr(DATE), JsStr(<<"+">> \o DATE),
     JsStr(<<"-", "x">>), JsStr(<<"x">>)}

PerPages ==
    {JsUndef, JsStr(<<"x">>)} \cup {JsNum(k) : k \in -1..MaxPerPage}

PaginationDirs == {JsUndef, JsStr(<<>>), JsStr(<<"page">>), JsStr(<<"p">>)}

PageConfigs ==
    {Config(JsUndef, pp, JsUndef) : pp \in PerPages}
    \cup {Config(JsUndef, JsNum(1), pd) : pd \in PaginationDirs}
    \cup {NoIndexGenerator(JsUndef)}

\* ------------------------------------------------- the state
VARIABLES
    locals,             \* the locals the generator is called with
    config,             \* this.config
    pc,                 \* "ready" before the call, "done" after it
    outcome,            \* "none", "returned" or "threw"
    explorationsPosts,  \* the selected posts (line 16)
    primaryPosts,       \* sortedPosts.data after line 27
    sortedPosts,        \* sortedPosts.data after line 30
    pages,              \* the value returned
    calls,              \* the calls of the generator so far
    generations         \* the times this run of the build generates the site

vars ==
    <<locals, config, pc, outcome, explorationsPosts, primaryPosts,
      sortedPosts, pages, calls, generations>>

Fresh ==
    /\ pc = "ready"
    /\ outcome = "none"
    /\ explorationsPosts = <<>>
    /\ primaryPosts = <<>>
    /\ sortedPosts = <<>>
    /\ pages = <<>>
    /\ calls = 0

\* locals.all_posts holds at most max posts of the kinds
HasPosts(Kinds, max) ==
    \E n \in 0..max : \E k \in [1..n -> Kinds] :
        locals = Locals(Collection(k))

InitSelect ==
    /\ HasPosts(SelectKinds, MaxPosts)
    /\ config = Config(JsUndef, JsNum(2), JsUndef)

InitDate ==
    /\ HasPosts(DateKinds, MaxPosts)
    /\ config \in {Config(ob, JsNum(2), JsUndef) : ob \in OrderBys}

InitSticky ==
    /\ HasPosts(StickyKinds, MaxPosts)
    /\ config = Config(JsUndef, JsUndef, JsUndef)

InitPage ==
    /\ HasPosts(PageKinds, MaxPosts)
    /\ config \in PageConfigs

InitPinnedMiddle ==
    /\ HasPosts(PinnedMiddleKinds, MaxPosts)
    /\ config = Config(JsUndef, JsUndef, JsUndef)

InitBulk ==
    /\ \E n \in 0..MaxBulk : \E recentFirst \in BOOLEAN :
          \E sticky \in {JsUndef, JsNum(0)} :
              locals = Locals(Collection(BulkPosts(n, recentFirst, sticky)))
    /\ config \in {Config(JsUndef, pp, JsUndef) :
                      pp \in {JsUndef, JsNum(DefaultPerPage)}
                             \cup {JsNum(k) : k \in 1..MaxPerPage}}

InitAbsent ==
    /\ locals = NoAllPosts
    /\ config \in PageConfigs

\* the site is generated once, or again and again as by a watching build
Init ==
    /\ \/ (InitSelect \/ InitSticky \/ InitPage \/ InitBulk \/ InitPinnedMiddle)
          /\ generations = 1
       \/ InitDate
          /\ generations = IF config.index_generator.order_by = JsUndef
                           THEN MaxCalls ELSE 1
       \/ InitAbsent /\ generations = MaxCalls
    /\ Fresh

\* one call of the generator by the site build, which calls it again each time
\* it generates the site
Generate ==
    /\ calls < generations
    /\ calls' = calls + 1
    /\ LET r == explorations(locals, config)
       IN /\ outcome' = r.outcome
          /\ explorationsPosts' = r.explorationsPosts
          /\ primaryPosts' = r.primaryPosts
          /\ sortedPosts' = r.sortedPosts
          /\ pages' = r.pages
          \* the array of locals.all_posts as the call leaves it
          /\ locals' = [locals EXCEPT !.all_posts.data = r.all_posts]
    /\ pc' = "done"
    /\ UNCHANGED <<config, generations>>

Next == Generate

Spec == Init /\ [][Next]_vars

\* ------------------------------------------------- vocabulary of the claims
Done == pc = "done"

AllPosts == locals.all_posts.data

\* the post has a category named as the target
HasTarget(post) ==
    /\ post.categories.present
    /\ \E c \in {post.categories.data[i] : i \in DOMAIN post.categories.data} :
          c.name = "Explorations"

NoMatch == ~locals.all_posts.present \/ \A i \in DOMAIN AllPosts : ~HasTarget(AllPosts[i])

\* the sticky priority of a post, 0 when it has none
StickyVal(post) == IF post.sticky.t = "number" THEN post.sticky.n ELSE 0

\* the configured ordering, '-date' when none is configured
OrderByConf ==
    IF config.index_generator.order_by.t = "string"
       /\ config.index_generator.order_by.s # <<>>
    THEN config.index_generator.order_by.s
    ELSE <<"-", "d", "a", "t", "e">>

\* the field the configured ordering names
OrderField ==
    IF Head(OrderByConf) \in {"-", "+"} THEN Tail(OrderByConf) ELSE OrderByConf

\* the configured page size, 10 when none is configured
PerPageConf ==
    IF config.index_generator.per_page.t = "undefined" THEN DefaultPerPage
    ELSE config.index_generator.per_page.n

\* the configured segment of the later pages' addresses
PageDirSegment ==
    IF config.pagination_dir.t = "string" /\ config.pagination_dir.s # <<>>
    THEN config.pagination_dir.s
    ELSE <<"page">>

PathBase == <<"explorations", "/">>

\* a configuration the specification calls valid
ValidConfig ==
    /\ config.index_generator.present
    /\ \/ config.index_generator.per_page.t = "undefined"
       \/ /\ config.index_generator.per_page.t = "number"
          /\ config.index_generator.per_page.n > 0
    /\ OrderField = <<"d", "a", "t", "e">>

\* the position of a post in a sequence that holds it once
Pos(seq, post) == CHOOSE i \in DOMAIN seq : seq[i] = post

\* the page of index i
PageOfIndex(i) == CHOOSE k \in DOMAIN pages : pages[k].data.current = i

\* the items of the pages, concatenated in index order
ConcatPages ==
    LET f[i \in 0..Len(pages)] ==
            IF i = 0 THEN <<>> ELSE f[i - 1] \o pages[PageOfIndex(i)].data.posts
    IN f[Len(pages)]

\* the least m with m * d >= n
Ceiling(n, d) == CHOOSE m \in 0..n : m * d >= n /\ \A k \in 0..n : k * d >= n => m <= k

\* ------------------------------------------------- the claims
\* C1: for every collection and every valid configuration, the items of the
\* produced pages, concatenated in index order, are exactly the filtered and
\* ordered sequence: every post of the target category is there once, in the
\* final order.
C1_PagesReproduceOrderedSequence ==
    (Done /\ ValidConfig /\ locals.all_posts.present) =>
        /\ outcome = "returned"
        /\ ConcatPages = sortedPosts
        /\ \A i \in DOMAIN AllPosts :
              Cardinality({j \in DOMAIN ConcatPages :
                              ConcatPages[j] = AllPosts[i]})
                  = IF HasTarget(AllPosts[i]) THEN 1 ELSE 0
        /\ Len(ConcatPages)
              = Cardinality({i \in DOMAIN AllPosts : HasTarget(AllPosts[i])})

\* several pages, of a collection the ordering has rearranged and the
\* selection has thinned
C1_Witness ==
    /\ Done /\ ValidConfig
    /\ Len(pages) >= 2
    /\ sortedPosts # explorationsPosts
    /\ Len(explorationsPosts) < Len(AllPosts)
    /\ ConcatPages = sortedPosts

\* C2: every item on any produced page has a category named 'Explorations'.
C2_OnlyTargetCategory ==
    Done =>
        \A k \in DOMAIN pages : \A j \in DOMAIN pages[k].data.posts :
            HasTarget(pages[k].data.posts[j])

\* pages were produced of a collection that also holds a post of another
\* category and one of the category 'explorations'
C2_Witness ==
    /\ Done
    /\ Len(pages) >= 1
    /\ \E i \in DOMAIN AllPosts : AllPosts[i].categories = Compilers
    /\ \E i \in DOMAIN AllPosts :
          AllPosts[i].categories = Categories(<<Cat("explorations")>>)

\* C3: the selected posts are exactly the posts of the collection that have a
\* category named as the target, in the order of the collection.
C3_SelectionIsSubsequence ==
    (Done /\ locals.all_posts.present) =>
        /\ \A j \in DOMAIN explorationsPosts :
              /\ explorationsPosts[j].id \in DOMAIN AllPosts
              /\ explorationsPosts[j] = AllPosts[explorationsPosts[j].id]
              /\ HasTarget(explorationsPosts[j])
        /\ \A j, k \in DOMAIN explorationsPosts :
              j < k => explorationsPosts[j].id < explorationsPosts[k].id
        /\ \A i \in DOMAIN AllPosts :
              HasTarget(AllPosts[i]) =>
                  \E j \in DOMAIN explorationsPosts :
                      explorationsPosts[j] = AllPosts[i]

\* two posts were selected around one that was not, one of them for its
\* second category
C3_Witness ==
    /\ Done
    /\ Len(AllPosts) = 3
    /\ Len(explorationsPosts) = 2
    /\ ~HasTarget(AllPosts[2])
    /\ AllPosts[3].categories = Categories(<<Cat("Compilers"), Cat(TARGET)>>)


\* C4: in the final order a post of higher sticky precedes every post of
\* lower sticky, whatever their dates and the configured ordering: the sticky
\* values never increase along the final order and along the pages.
C4_StickyNonIncreasing ==
    Done =>
        /\ \A i, j \in DOMAIN sortedPosts :
              StickyVal(sortedPosts[i]) > StickyVal(sortedPosts[j]) => i < j
        /\ \A i, j \in DOMAIN ConcatPages :
              i < j => StickyVal(ConcatPages[i]) >= StickyVal(ConcatPages[j])

\* a post of sticky 5 is ahead of a post of sticky 2 that is more recent and
\* came first in the collection, under the default ordering
C4_Witness ==
    /\ Done
    /\ config.index_generator.order_by = JsUndef
    /\ \E i, j \in DOMAIN explorationsPosts :
          /\ i < j
          /\ explorationsPosts[i].sticky = JsNum(2)
          /\ explorationsPosts[j].sticky = JsNum(5)
          /\ explorationsPosts[i].date > explorationsPosts[j].date
          /\ Pos(sortedPosts, explorationsPosts[j])
                < Pos(sortedPosts, explorationsPosts[i])

\* C5: two selected posts of equal sticky are in the final order as the
\* primary pass left them; under the default ordering the more recent of them
\* is first.
C5_EqualStickyKeepPrimaryOrder ==
    (Done /\ outcome = "returned") =>
        /\ \A i, j \in DOMAIN primaryPosts :
              (i < j /\ StickyVal(primaryPosts[i]) = StickyVal(primaryPosts[j]))
                  => Pos(sortedPosts, primaryPosts[i])
                        < Pos(sortedPosts, primaryPosts[j])
        /\ config.index_generator.order_by = JsUndef =>
              \A i, j \in DOMAIN sortedPosts :
                  (i < j /\ StickyVal(sortedPosts[i]) = StickyVal(sortedPosts[j]))
                      => sortedPosts[i].date >= sortedPosts[j].date

\* the default ordering has put the more recent of two unpinned posts first
\* and the sticky pass has moved a pinned post ahead of both
C5_Witness ==
    /\ Done
    /\ config.index_generator.order_by = JsUndef
    /\ Len(explorationsPosts) = 3
    /\ explorationsPosts[1].sticky = JsUndef
    /\ explorationsPosts[2].sticky = JsUndef
    /\ explorationsPosts[3].sticky = JsNum(2)
    /\ explorationsPosts[1].date < explorationsPosts[2].date
    /\ explorationsPosts[3].date < explorationsPosts[1].date
    /\ primaryPosts
          = <<explorationsPosts[2], explorationsPosts[1], explorationsPosts[3]>>
    /\ sortedPosts
          = <<explorationsPosts[3], explorationsPosts[2], explorationsPosts[1]>>

\* the value of the ordering's field on a post: only the date is a field of
\* the posts
PrimaryKey(post) == IF OrderField = <<"d", "a", "t", "e">> THEN post.date ELSE 0

\* C6: two selected posts of equal sticky and equal primary key are in the
\* final order as they were in the selection.
C6_OrdererIsStable ==
    (Done /\ outcome = "returned") =>
        \A i, j \in DOMAIN explorationsPosts :
            ( /\ i < j
              /\ StickyVal(explorationsPosts[i]) = StickyVal(explorationsPosts[j])
              /\ PrimaryKey(explorationsPosts[i]) = PrimaryKey(explorationsPosts[j]) )
                => Pos(sortedPosts, explorationsPosts[i])
                      < Pos(sortedPosts, explorationsPosts[j])

\* two posts of equal date and sticky kept their order while a third,
\* between them in the selection, was moved ahead of both
C6_Witness ==
    /\ Done
    /\ Len(explorationsPosts) = 3
    /\ explorationsPosts[1].date = explorationsPosts[3].date
    /\ explorationsPosts[1].sticky = JsNum(0)
    /\ explorationsPosts[3].sticky = JsUndef
    /\ sortedPosts
          = <<explorationsPosts[2], explorationsPosts[1], explorationsPosts[3]>>

\* C7: with n > 0 selected posts and a valid page size, ceil(n / perPage)
\* pages are produced and each carries that number as its total; with n = 0
\* none is produced.
C7_PageCountIsCeiling ==
    (Done /\ ValidConfig) =>
        LET n == Cardinality({i \in DOMAIN AllPosts : HasTarget(AllPosts[i])})
        IN IF n > 0
           THEN /\ Len(pages) = Ceiling(n, PerPageConf)
                /\ \A k \in DOMAIN pages :
                      pages[k].data.total = Ceiling(n, PerPageConf)
           ELSE pages = <<>>

\* five posts at two a page: three pages
C7_Witness ==
    /\ Done /\ ValidConfig
    /\ Len(explorationsPosts) = 5
    /\ PerPageConf = 2
    /\ Len(pages) = 3
    /\ pages[3].data.total = 3

\* C8: every produced page but the last holds exactly perPage items, the last
\* holds between 1 and perPage, and no produced page is empty.
C8_PageSizes ==
    (Done /\ ValidConfig) =>
        \A k \in DOMAIN pages :
            LET size == Len(pages[k].data.posts)
            IN /\ size >= 1
               /\ size <= PerPageConf
               /\ pages[k].data.current < Len(pages) => size = PerPageConf

\* two full pages and a last one that is not
C8_Witness ==
    /\ Done /\ ValidConfig
    /\ PerPageConf = 2
    /\ Len(pages) = 3
    /\ Len(pages[1].data.posts) = 2
    /\ Len(pages[2].data.posts) = 2
    /\ Len(pages[3].data.posts) = 1

\* C9: the page of index 1 has the address 'explorations/', and the page of
\* index i > 1 has 'explorations/' + pageDirSegment + '/' + i + '/'.
C9_PageAddress ==
    Done =>
        \A k \in DOMAIN pages :
            pages[k].path
                = IF pages[k].data.current = 1 THEN PathBase
                  ELSE PathBase \o PageDirSegment
                          \o <<"/">> \o DecStr(pages[k].data.current) \o <<"/">>

\* a first page at 'explorations/' and a third at 'explorations/p/3/'
C9_Witness ==
    /\ Done
    /\ Len(pages) = 3
    /\ pages[1].path = <<"explorations", "/">>
    /\ pages[3].data.current = 3
    /\ pages[3].path = <<"explorations", "/", "p", "/", "3", "/">>

\* C10: when the collection is absent or no post has the target category,
\* the generator returns the empty sequence of pages and raises nothing.
C10_EmptyIsNormal ==
    (Done /\ NoMatch) => (outcome = "returned" /\ pages = <<>>)

\* a collection of posts none of which has the category
C10_Witness ==
    /\ Done
    /\ locals.all_posts.present
    /\ Len(AllPosts) >= 2
    /\ NoMatch
    /\ outcome = "returned"
    /\ pages = <<>>


\* a page size is configured and it is no positive integer
InvalidPerPage ==
    /\ config.index_generator.present
    /\ config.index_generator.per_page.t # "undefined"
    /\ ~(config.index_generator.per_page.t = "number"
         /\ config.index_generator.per_page.n > 0)

\* C11: when a post is selected and the configured perPage is no positive
\* integer (zero, negative or not a number), the generator ends in a failure
\* and returns no pages; the value is never replaced by another.
C11_InvalidPerPageFails ==
    (Done /\ ~NoMatch /\ InvalidPerPage) =>
        (outcome = "threw" /\ pages = <<>>)


\* the configured ordering names a field the posts do not have
MissingOrderField ==
    /\ config.index_generator.present
    /\ OrderField \notin {<<"d", "a", "t", "e">>, <<"s", "t", "i", "c", "k", "y">>}

\* C12: when a post is selected and the configured orderBy names a field the
\* posts do not have, the generator ends in a failure and returns no pages in
\* any order.
C12_MissingOrderFieldFails ==
    (Done /\ ~NoMatch /\ MissingOrderField) =>
        (outcome = "threw" /\ pages = <<>>)


\* C13: the primary pass orders by the configured field, descending when the
\* field name has the prefix '-', ascending when it has none; when no
\* ordering is configured it is descending by date.
C13_OrderByDirection ==
    (Done /\ outcome = "returned" /\ OrderField = <<"d", "a", "t", "e">>) =>
        /\ Len(primaryPosts) = Len(explorationsPosts)
        /\ Range(primaryPosts) = Range(explorationsPosts)
        /\ \A i, j \in DOMAIN primaryPosts :
              i < j =>
                  IF Head(OrderByConf) = "-"
                  THEN primaryPosts[i].date >= primaryPosts[j].date
                  ELSE primaryPosts[i].date <= primaryPosts[j].date

\* order_by 'date' has put three posts, selected from the most recent to the
\* oldest, into the ascending order
C13_Witness ==
    /\ Done
    /\ config.index_generator.order_by = JsStr(<<"d", "a", "t", "e">>)
    /\ Len(explorationsPosts) = 3
    /\ explorationsPosts[1].date = 3
    /\ explorationsPosts[2].date = 2
    /\ explorationsPosts[3].date = 1
    /\ primaryPosts
          = <<explorationsPosts[3], explorationsPosts[2], explorationsPosts[1]>>


\* neither the page size nor the segment is configured
PagingUnset ==
    /\ config.index_generator.per_page.t = "undefined"
    /\ config.pagination_dir.t = "undefined"

\* what the generator gives with perPage = 10 and the segment 'page'
\* written into the configuration
WithDefaults ==
    explorations(locals,
                 Config(config.index_generator.order_by,
                        JsNum(10), JsStr(<<"page">>)))

\* C14: when perPage and pageDirSegment are not set, the generator behaves as
\* with perPage = 10 and pageDirSegment = 'page' and completes without
\* failure, also when the whole index_generator group is absent.
C14_DefaultsApply ==
    (Done /\ PagingUnset) =>
        (outcome = "returned" /\ pages = WithDefaults.pages)


\* the collection with every hidden flag cleared
Unhidden == [i \in DOMAIN AllPosts |-> [AllPosts[i] EXCEPT !.hidden = FALSE]]

\* a page sequence as the addresses of the pages and the identities of
\* their items
PageIds(ps) ==
    [k \in DOMAIN ps |->
        [path |-> ps[k].path,
         ids |-> [j \in DOMAIN ps[k].data.posts |-> ps[k].data.posts[j].id]]]

\* C15: the hidden flag does not enter the selection: a collection and the
\* same collection with other hidden flags give the same page sequence, and
\* a hidden post of the target category is selected.
C15_HiddenIsIgnored ==
    (Done /\ locals.all_posts.present) =>
        /\ outcome = explorations(Locals(Unhidden), config).outcome
        /\ PageIds(pages)
              = PageIds(explorations(Locals(Unhidden), config).pages)
        /\ \A i \in DOMAIN AllPosts :
              (AllPosts[i].hidden /\ HasTarget(AllPosts[i])) =>
                  \E j \in DOMAIN explorationsPosts :
                      explorationsPosts[j] = AllPosts[i]

\* a hidden post of the category is on the first page, before one that is
\* not hidden
C15_Witness ==
    /\ Done
    /\ Len(pages) = 1
    /\ Len(pages[1].data.posts) = 2
    /\ pages[1].data.posts[1].hidden
    /\ ~pages[1].data.posts[2].hidden


\* the post has the category 'explorations' and none named as the target
CaseMismatch(post) ==
    /\ ~HasTarget(post)
    /\ post.categories.present
    /\ \E i \in DOMAIN post.categories.data :
          post.categories.data[i].name = "explorations"

\* C16: a post whose categories equal the target only up to letter case is
\* never selected, and its presence gives a shorter or empty result, not an
\* error.
C16_CaseSensitive ==
    (Done /\ locals.all_posts.present) =>
        \A i \in DOMAIN AllPosts :
            CaseMismatch(AllPosts[i]) =>
                /\ AllPosts[i] \notin Range(explorationsPosts)
                /\ \A k \in DOMAIN pages :
                      AllPosts[i] \notin Range(pages[k].data.posts)
                /\ ValidConfig =>
                      (outcome = "returned" /\ Len(ConcatPages) < Len(AllPosts))

\* of a post of the category 'explorations' and a post of the category
\* 'Explorations', only the second is on the page
C16_Witness ==
    /\ Done
    /\ Len(AllPosts) = 2
    /\ CaseMismatch(AllPosts[1])
    /\ HasTarget(AllPosts[2])
    /\ Len(pages) = 1
    /\ pages[1].data.posts = <<AllPosts[2]>>


\* C17: every page has the layouts 'explorations', 'index' in this order and
\* the data __explorations = true, subtitle = 'Curiosity-driven dives',
\* whatever its index.
C17_SameLayoutAndData ==
    Done =>
        \A k \in DOMAIN pages :
            /\ pages[k].layout = <<"explorations", "index">>
            /\ pages[k].data.__explorations = TRUE
            /\ pages[k].data.subtitle = <<"Curiosity-driven dives">>

\* three pages, the first and the last with the same layouts and data
C17_Witness ==
    /\ Done
    /\ Len(pages) = 3
    /\ pages[1].data.current = 1
    /\ pages[3].data.current = 3
    /\ pages[1].layout = pages[3].layout
    /\ pages[3].data.subtitle = <<"Curiosity-driven dives">>


\* the k-th chunk of perPage items of a sequence
Chunk(seq, k, perPage) ==
    SubSeq(seq, (k - 1) * perPage + 1, Min(k * perPage, Len(seq)))

\* C18: the k-th produced page has the index k, so the indices are 1, 2, ...,
\* totalPages without gap or repetition, and under a valid configuration it
\* holds the k-th chunk of the ordered sequence.
C18_IndicesAndChunks ==
    Done =>
        \A k \in DOMAIN pages :
            /\ pages[k].data.current = k
            /\ pages[k].data.total = Len(pages)
            /\ ValidConfig =>
                  pages[k].data.posts = Chunk(sortedPosts, k, PerPageConf)

\* eleven posts and no configured page size: ten on page 1, one on page 2
C18_Witness ==
    /\ Done /\ ValidConfig
    /\ config.index_generator.per_page.t = "undefined"
    /\ Len(sortedPosts) = 11
    /\ Len(pages) = 2
    /\ pages[2].data.current = 2
    /\ pages[2].data.posts = <<sortedPosts[11]>>


\* C19: a call leaves its inputs as they were: locals.all_posts holds the same
\* posts in the same order with the same fields, the configuration is the
\* same, and the posts of the returned pages are posts of the collection,
\* field for field.
C19_InputsUnchanged ==
    [][/\ locals' = locals
       /\ config' = config
       /\ \A k \in DOMAIN pages' :
             Range(pages'[k].data.posts) \subseteq Range(AllPosts)]_vars

\* both sorts have moved posts, and the collection is in neither order
C19_Witness ==
    /\ Done
    /\ outcome = "returned"
    /\ primaryPosts # explorationsPosts
    /\ sortedPosts # primaryPosts
    /\ AllPosts = explorationsPosts

\* C20: a later call on the same collection and configuration returns what
\* the call before it returned: the same outcome and the same pages.
C20_Deterministic ==
    [][calls >= 1 => (outcome' = outcome /\ pages' = pages)]_vars

\* the second call has returned two pages, as the first did
C20_Witness ==
    /\ calls = 2
    /\ outcome = "returned"
    /\ Len(pages) = 2
    /\ pages = explorations(locals, config).pages


\* C21: with at least one post of the category and a valid configuration the
\* generator runs to its return statement and returns pages: nothing is thrown
\* on the way, at least one page comes back, and every page has its path, its
\* layouts and its posts.
C21_CompletesWithPages ==
    (Done /\ ~NoMatch /\ ValidConfig) =>
        /\ outcome = "returned"
        /\ Len(pages) >= 1
        /\ \A k \in DOMAIN pages :
              /\ Len(pages[k].path) >= 1
              /\ Len(pages[k].layout) >= 1
              /\ Len(pages[k].data.posts) >= 1

\* one matching post under a configuration that sets nothing: one page
C21_Witness ==
    /\ Done /\ ValidConfig
    /\ config.index_generator.order_by = JsUndef
    /\ config.index_generator.per_page = JsUndef
    /\ Len(explorationsPosts) = 1
    /\ outcome = "returned"
    /\ Len(pages) = 1


\* twelve posts of the category, from the most recent to the oldest, all of
\* sticky 0, under the default ordering and a page size of 10
TwelveAtTen ==
    /\ locals.all_posts.present
    /\ Len(AllPosts) = 12
    /\ \A i \in DOMAIN AllPosts :
          HasTarget(AllPosts[i]) /\ AllPosts[i].sticky = JsNum(0)
    /\ \A i, j \in DOMAIN AllPosts : i < j => AllPosts[i].date > AllPosts[j].date
    /\ config.index_generator.present
    /\ config.index_generator.order_by = JsUndef
    /\ config.index_generator.per_page = JsNum(10)

\* C22: of twelve matching posts of strictly decreasing dates, all of sticky
\* 0, at ten a page, two pages are produced: page 1 holds posts 1-10 at
\* pathBase, page 2 holds posts 11-12 at pathBase/pageDirSegment/2/, and both
\* carry the total 2.
C22_TwelveItemsTwoPages ==
    (Done /\ TwelveAtTen) =>
        /\ Len(pages) = 2
        /\ pages[1].data.posts = SubSeq(AllPosts, 1, 10)
        /\ pages[1].path = PathBase
        /\ pages[1].data.total = 2
        /\ pages[2].data.posts = SubSeq(AllPosts, 11, 12)
        /\ pages[2].path = PathBase \o PageDirSegment \o <<"/", "2", "/">>
        /\ pages[2].data.total = 2

\* the scenario has run: the second page is at 'explorations/page/2/'
C22_Witness ==
    /\ Done /\ TwelveAtTen
    /\ Len(pages) = 2
    /\ pages[2].path = <<"explorations", "/", "page", "/", "2", "/">>
    /\ Len(pages[2].data.posts) = 2


\* the date and the sticky of the posts of a sequence, in its order
DateSticky(seq) ==
    [i \in DOMAIN seq |-> [date |-> seq[i].date, sticky |-> seq[i].sticky]]

ItemA == [date |-> 3, sticky |-> JsNum(0)]
ItemB == [date |-> 2, sticky |-> JsNum(1)]
ItemC == [date |-> 1, sticky |-> JsNum(0)]

\* the collection is A, B and C, in some order, under the default ordering
ThreeItems ==
    /\ locals.all_posts.present
    /\ Len(AllPosts) = 3
    /\ \A i \in DOMAIN AllPosts : HasTarget(AllPosts[i])
    /\ Range(DateSticky(AllPosts)) = {ItemA, ItemB, ItemC}
    /\ config.index_generator.present
    /\ config.index_generator.order_by = JsUndef

\* C23: of A (newest, sticky 0), B (middle, sticky 1) and C (oldest, sticky
\* 0) under the default ordering, the primary order is A, B, C and the final
\* order is B, A, C.
C23_PinnedMiddleGoesFirst ==
    (Done /\ ThreeItems) =>
        /\ DateSticky(primaryPosts) = <<ItemA, ItemB, ItemC>>
        /\ DateSticky(sortedPosts) = <<ItemB, ItemA, ItemC>>
        /\ DateSticky(ConcatPages) = <<ItemB, ItemA, ItemC>>

\* the scenario has run on the collection C, A, B
C23_Witness ==
    /\ Done /\ ThreeItems
    /\ DateSticky(AllPosts) = <<ItemC, ItemA, ItemB>>
    /\ DateSticky(sortedPosts) = <<ItemB, ItemA, ItemC>>
    /\ Len(pages) = 1


\* configurations of every sort: valid ones, ones of an invalid page size or
\* ordering, and one without the index_generator group
AnyConfigs ==
    PageConfigs \cup {Config(ob, JsNum(2), JsUndef) : ob \in OrderBys}

\* C24: the test for an empty selection comes before every read of the
\* configuration: when the collection is absent or no post has the category,
\* the call returns the empty sequence of pages whatever the configuration,
\* the present one and every other, valid or not, and no sort has been made.
C24_EmptyBeforeConfig ==
    (Done /\ NoMatch) =>
        /\ outcome = "returned" /\ pages = <<>>
        /\ primaryPosts = <<>> /\ sortedPosts = <<>>
        /\ \A c \in AnyConfigs :
              /\ explorations(locals, c).outcome = "returned"
              /\ explorations(locals, c).pages = <<>>

\* posts of another category only, and a configuration without the
\* index_generator group: nothing was thrown
C24_Witness ==
    /\ Done
    /\ locals.all_posts.present
    /\ Len(AllPosts) >= 1
    /\ NoMatch
    /\ ~config.index_generator.present
    /\ outcome = "returned"


\* the collection with sticky 0 written into every post that has none
ZeroForAbsent ==
    [i \in DOMAIN AllPosts |->
        IF AllPosts[i].sticky = JsUndef
        THEN [AllPosts[i] EXCEPT !.sticky = JsNum(0)]
        ELSE AllPosts[i]]

\* the sticky of the post is absent or 0
Unpinned(post) == post.sticky \in {JsUndef, JsNum(0)}

\* C25: a post without sticky is ordered as a post of sticky 0: the pages hold
\* the same posts at the same places when 0 is written for every absent
\* sticky, and posts of absent and of 0 sticky keep their primary order; a
\* post of negative sticky comes after every post of absent or 0 sticky.
C25_AbsentStickyIsZero ==
    (Done /\ locals.all_posts.present) =>
        /\ outcome = explorations(Locals(ZeroForAbsent), config).outcome
        /\ PageIds(pages)
              = PageIds(explorations(Locals(ZeroForAbsent), config).pages)
        /\ \A i, j \in DOMAIN primaryPosts :
              (i < j /\ Unpinned(primaryPosts[i]) /\ Unpinned(primaryPosts[j]))
                  => Pos(sortedPosts, primaryPosts[i])
                        < Pos(sortedPosts, primaryPosts[j])
        /\ \A i, j \in DOMAIN sortedPosts :
              ( /\ sortedPosts[i].sticky.t = "number"
                /\ sortedPosts[i].sticky.n < 0
                /\ Unpinned(sortedPosts[j]) ) => j < i

\* a post of sticky -1 came first in the collection and is last in the final
\* order, behind a post without sticky and a post of sticky 0, which kept
\* their order
C25_Witness ==
    /\ Done
    /\ Len(explorationsPosts) = 3
    /\ explorationsPosts[1].sticky = JsNum(-1)
    /\ explorationsPosts[2].sticky = JsUndef
    /\ explorationsPosts[3].sticky = JsNum(0)
    /\ explorationsPosts[2].date = explorationsPosts[3].date
    /\ sortedPosts
          = <<explorationsPosts[2], explorationsPosts[3], explorationsPosts[1]>>


\* the times a post occurs in a sequence
Occurrences(seq, post) == Cardinality({j \in DOMAIN seq : seq[j] = post})

\* the post has no category list or an empty one
Uncategorised(post) ==
    ~post.categories.present \/ post.categories.data = <<>>

\* C26: a post whose category list is absent or empty is never selected; a
\* post that names the target category at any place of its list, or more than
\* once, is selected and is in the output exactly once.
C26_SelectedOnce ==
    (Done /\ locals.all_posts.present) =>
        \A i \in DOMAIN AllPosts :
            /\ Uncategorised(AllPosts[i]) =>
                  /\ Occurrences(explorationsPosts, AllPosts[i]) = 0
                  /\ \A k \in DOMAIN pages :
                        Occurrences(pages[k].data.posts, AllPosts[i]) = 0
            /\ HasTarget(AllPosts[i]) =>
                  /\ Occurrences(explorationsPosts, AllPosts[i]) = 1
                  /\ ValidConfig => Occurrences(ConcatPages, AllPosts[i]) = 1

\* a post without categories is left out, a post that names the category
\* twice and one that names it second are each on the page once
C26_Witness ==
    /\ Done /\ ValidConfig
    /\ Len(AllPosts) = 3
    /\ AllPosts[1].categories = NoCategories
    /\ AllPosts[2].categories = Categories(<<Cat(TARGET), Cat(TARGET)>>)
    /\ AllPosts[3].categories = Categories(<<Cat("Compilers"), Cat(TARGET)>>)
    /\ ConcatPages = <<AllPosts[2], AllPosts[3]>>


\* the posts of the collection that have the target category, in its order
Matching == SelectSeq(AllPosts, HasTarget)

\* C27: the posts without the target category have no influence: the call
\* returns what it returns on the collection of the matching posts alone, so
\* two collections of the same matching posts give the same pages wherever
\* and whichever other posts they hold.
C27_OthersHaveNoInfluence ==
    (Done /\ locals.all_posts.present) =>
        /\ outcome = explorations(Locals(Matching), config).outcome
        /\ pages = explorations(Locals(Matching), config).pages

\* two matching posts around one that does not match, and pages of the two
C27_Witness ==
    /\ Done
    /\ Len(AllPosts) = 3
    /\ HasTarget(AllPosts[1])
    /\ ~HasTarget(AllPosts[2])
    /\ HasTarget(AllPosts[3])
    /\ Len(pages) = 2
    /\ pages = explorations(Locals(<<AllPosts[1], AllPosts[3]>>), config).pages


\* the sequence the two passes of lines 27 and 30 make of a sequence
Orderer(seq) == stickySort(primarySort(seq, orderByOf(config)))

\* C28: the two passes are idempotent: made again on the final order, under
\* the same ordering, they leave it as it is.
C28_OrdererIdempotent ==
    (Done /\ outcome = "returned" /\ config.index_generator.present) =>
        /\ sortedPosts = Orderer(explorationsPosts)
        /\ Orderer(sortedPosts) = sortedPosts

\* both passes have moved posts of the selection, and a second round of the
\* two moves none
C28_Witness ==
    /\ Done
    /\ outcome = "returned"
    /\ Len(explorationsPosts) = 3
    /\ primaryPosts # explorationsPosts
    /\ sortedPosts # primaryPosts
    /\ \E i, j \in DOMAIN sortedPosts :
          /\ i # j
          /\ sortedPosts[i].date = sortedPosts[j].date
          /\ StickyVal(sortedPosts[i]) = StickyVal(sortedPosts[j])
    /\ Orderer(sortedPosts) = sortedPosts

\* C29: the addresses of the pages of one call differ from one another, and
\* one page, the one of index 1, has the address pathBase.
C29_AddressesDistinct ==
    Done =>
        /\ \A k, l \in DOMAIN pages :
              k # l => pages[k].path # pages[l].path
        /\ pages # <<>> =>
              /\ Cardinality({k \in DOMAIN pages : pages[k].path = PathBase}) = 1
              /\ \A k \in DOMAIN pages :
                    pages[k].path = PathBase <=> pages[k].data.current = 1

\* three pages at three addresses, the first at 'explorations/'
C29_Witness ==
    /\ Done
    /\ Len(pages) = 3
    /\ pages[1].path = PathBase
    /\ Cardinality({pages[k].path : k \in DOMAIN pages}) = 3

\* a post of the category that is not in the collection
OneMorePost ==
    [id |-> Len(AllPosts) + 1, categories |-> Categories(<<Cat("Explorations")>>),
     date |-> 1, sticky |-> JsUndef, hidden |-> FALSE]

\* the pages of the collection with that post added
PagesWithOneMore ==
    explorations(Locals(Append(AllPosts, OneMorePost)), config).pages

\* C30: under a valid configuration one more matching post never gives fewer
\* pages and gives at most one more, and it gives one more exactly when the
\* number of selected posts was a multiple of the page size.
C30_OneMorePost ==
    (Done /\ locals.all_posts.present /\ ValidConfig) =>
        /\ Len(PagesWithOneMore) >= Len(pages)
        /\ Len(PagesWithOneMore) <= Len(pages) + 1
        /\ Len(PagesWithOneMore) = Len(pages) + 1
              <=> Len(explorationsPosts) % PerPageConf = 0

\* ten posts fill one page of the default size, and an eleventh opens a second
C30_Witness ==
    /\ Done /\ ValidConfig
    /\ config.index_generator.per_page = JsUndef
    /\ Len(explorationsPosts) = 10
    /\ Len(pages) = 1
    /\ Len(PagesWithOneMore) = 2

====
